---- MODULE Spec2Model ----
(***************************************************************************)
(* EMA-crossover signal engine and backtest simulators of                  *)
(* bot_trade_coinbase: calculate_ema_strategy and backtest_ema of          *)
(* backtest.py, and the fee-less backtest_ema of app.py.                   *)
(*                                                                         *)
(* Numbers.  The program computes in IEEE doubles.  A value is modelled    *)
(* as a pair <<n, d>>: d > 0 is the exact rational n/d in lowest terms,    *)
(* <<1,0>> is +inf, <<-1,0>> is -inf and <<0,0>> is NaN.  Rounding and     *)
(* the sign of zero are not modelled; division by zero, inf and NaN        *)
(* propagation and NaN's comparison rules are.                             *)
(*                                                                         *)
(* Indices.  i, idx are the code's 0-based bar indices; the columns are    *)
(* TLA+ sequences, so bar i of column c is c[i + 1].                       *)
(***************************************************************************)
EXTENDS Integers, Sequences, FiniteSets, TLC

\* ---------------------------------------------------------------- bounds
\* longest frame handed over with a signal column already attached
MaxBars == 3
\* longest raw candle frame (no signal column yet)
MaxLen == 4
\* largest EMA span
MaxWindow == 2

\* ------------------------------------------------------------ arithmetic
Abs(x) == IF x < 0 THEN -x ELSE x

Sgn(x) == IF x > 0 THEN 1 ELSE IF x < 0 THEN -1 ELSE 0

RECURSIVE GCD(_, _)
GCD(a, b) == IF b = 0 THEN a ELSE GCD(b, a % b)

Norm(n, d) ==
    IF d = 0 THEN <<Sgn(n), 0>>
    ELSE LET g == GCD(Abs(n), Abs(d))
             s == IF d < 0 THEN -1 ELSE 1
         IN  <<(s * n) \div g, (s * d) \div g>>

Zero == <<0, 1>>
NaN == <<0, 0>>
Num(k) == <<k, 1>>

IsFinite(a) == a[2] # 0
IsNaN(a) == a = NaN

Neg(a) == <<-a[1], a[2]>>

Add(a, b) ==
    IF a[2] = 0 /\ b[2] = 0 THEN (IF a = b THEN a ELSE NaN)
    ELSE IF a[2] = 0 THEN a
    ELSE IF b[2] = 0 THEN b
    ELSE LET g == GCD(a[2], b[2])
         IN  Norm(a[1] * (b[2] \div g) + b[1] * (a[2] \div g), (a[2] \div g) * b[2])

Sub(a, b) == Add(a, Neg(b))

Mul(a, b) ==
    IF a[2] = 0 \/ b[2] = 0 THEN <<Sgn(a[1]) * Sgn(b[1]), 0>>
    ELSE LET g1 == GCD(Abs(a[1]), b[2])
             g2 == GCD(Abs(b[1]), a[2])
         IN  Norm((a[1] \div g1) * (b[1] \div g2), (a[2] \div g2) * (b[2] \div g1))

\* numpy scalar division: x/0 is +-inf, 0/0 and inf/inf are NaN, no exception
Div(a, b) ==
    IF IsNaN(a) \/ IsNaN(b) THEN NaN
    ELSE IF b[2] = 0 THEN (IF a[2] = 0 THEN NaN ELSE Zero)
    ELSE IF a[2] = 0 THEN <<a[1] * (IF b[1] < 0 THEN -1 ELSE 1), 0>>
    ELSE IF b[1] = 0 THEN <<Sgn(a[1]), 0>>
    ELSE Mul(a, Norm(b[2], b[1]))

Lt(a, b) ==
    /\ ~IsNaN(a)
    /\ ~IsNaN(b)
    /\ IF a[2] = 0 /\ b[2] = 0 THEN a[1] < b[1]
       ELSE IF a[2] = 0 THEN a[1] < 0
       ELSE IF b[2] = 0 THEN b[1] > 0
       ELSE a[1] * b[2] < b[1] * a[2]

Gt(a, b) == Lt(b, a)
Eq(a, b) == ~IsNaN(a) /\ ~IsNaN(b) /\ a = b
Leq(a, b) == Lt(a, b) \/ Eq(a, b)

\* ---------------------------------------------------------------- inputs
Prices == {Zero, Num(1), Num(2)}
Signals == {-1, 0, 1}
Windows == 1..MaxWindow
InitialCapitals == {Num(1000)}
FeeRates == {Zero, <<1, 10>>, <<6, 5>>}

VARIABLES close, signal, ema_short, ema_long, short_window, long_window,
          initial_capital, fee_percent, pc,
          i, position, entry_price, capital, shares, position_col,
          cap_temp, pos, sh, entry_p, portfolio_values, roi, ret_position,
          idx, app_position, balance, portfolio, app_roi

df == <<close, signal, ema_short, ema_long, short_window, long_window>>
params == <<initial_capital, fee_percent>>
ledger == <<i, position, entry_price, capital, shares, position_col>>
valuation == <<cap_temp, pos, sh, entry_p, portfolio_values>>
result == <<roi, ret_position>>
app == <<idx, app_position, balance, portfolio, app_roi>>
vars == <<df, params, pc, ledger, valuation, result, app>>

N == Len(close)

\* ------------------------------------------------- calculate_ema_strategy
\* Series.ewm(span=span, adjust=False).mean(): alpha = 2/(span+1),
\* y[0] = x[0], y[t] = (1 - alpha)*y[t-1] + alpha*x[t]
Alpha(span) == Norm(2, span + 1)

\* mutant of Ewm: the average is seeded with 0 instead of close[0]
RECURSIVE EwmZeroSeed(_, _)
EwmZeroSeed(x, span) ==
    IF Len(x) = 0 THEN <<>>
    ELSE IF Len(x) = 1 THEN <<Mul(Alpha(span), x[1])>>
    ELSE LET prev == EwmZeroSeed(SubSeq(x, 1, Len(x) - 1), span)
         IN  Append(prev, Add(Mul(Sub(Num(1), Alpha(span)), prev[Len(prev)]),
                              Mul(Alpha(span), x[Len(x)])))

RECURSIVE Ewm(_, _)
Ewm(x, span) ==
    IF Len(x) = 0 THEN <<>>
    ELSE IF Len(x) = 1 THEN <<x[1]>>
    ELSE LET prev == Ewm(SubSeq(x, 1, Len(x) - 1), span)
         IN  Append(prev, Add(Mul(Sub(Num(1), Alpha(span)), prev[Len(prev)]),
                              Mul(Alpha(span), x[Len(x)])))

\* mutant of SignalOf: >= instead of > in the Buy mask
SignalOfGe(es, el) == IF Lt(es, el) THEN -1 ELSE IF Gt(es, el) \/ Eq(es, el) THEN 1 ELSE 0

\* df["signal"] = 0; then 1 where ema_short > ema_long; then -1 where ema_short < ema_long
SignalOf(es, el) == IF Lt(es, el) THEN -1 ELSE IF Gt(es, el) THEN 1 ELSE 0

CalculateEmaStrategy ==
    /\ pc \in {"raw", "start"}
    /\ \E sw \in Windows, lw \in Windows :
          /\ short_window' = sw
          /\ long_window' = lw
          /\ LET es == Ewm(close, sw)
                 el == Ewm(close, lw)
             IN  /\ ema_short' = es
                 /\ ema_long' = el
                 /\ signal' = [k \in 1..N |-> SignalOf(es[k], el[k])]
    /\ pc' = "ready"
    /\ UNCHANGED <<close, params, ledger, valuation, result, app>>

\* ------------------------------------------------ backtest.py backtest_ema
\* mutant of LedgerIter: the Buy branch does not test position == 0
LedgerIterBuyAnyway(st, sig, close_price, fee_rate) ==
    IF sig = 1 THEN
        LET fee == Mul(st.capital, fee_rate)
            capital_after_fee == Sub(st.capital, fee)
        IN  [position |-> 1, entry_price |-> close_price, capital |-> st.capital,
             shares |-> Div(capital_after_fee, close_price)]
    ELSE IF st.position = 1 /\ sig = -1 THEN
        LET sell_value == Mul(st.shares, close_price)
            fee == Mul(sell_value, fee_rate)
        IN  [position |-> 0, entry_price |-> st.entry_price,
             capital |-> Sub(sell_value, fee), shares |-> Zero]
    ELSE st

\* mutant of LedgerIter: the Sell branch does not reset shares
LedgerIterKeepShares(st, sig, close_price, fee_rate) ==
    IF st.position = 0 /\ sig = 1 THEN
        LET fee == Mul(st.capital, fee_rate)
            capital_after_fee == Sub(st.capital, fee)
        IN  [position |-> 1, entry_price |-> close_price, capital |-> st.capital,
             shares |-> Div(capital_after_fee, close_price)]
    ELSE IF st.position = 1 /\ sig = -1 THEN
        LET sell_value == Mul(st.shares, close_price)
            fee == Mul(sell_value, fee_rate)
        IN  [position |-> 0, entry_price |-> st.entry_price,
             capital |-> Sub(sell_value, fee), shares |-> st.shares]
    ELSE st

\* mutant of LedgerIter: the fee is credited instead of debited
LedgerIterFeeCredited(st, sig, close_price, fee_rate) ==
    IF st.position = 0 /\ sig = 1 THEN
        LET fee == Mul(st.capital, fee_rate)
            capital_after_fee == Add(st.capital, fee)
        IN  [position |-> 1, entry_price |-> close_price, capital |-> st.capital,
             shares |-> Div(capital_after_fee, close_price)]
    ELSE IF st.position = 1 /\ sig = -1 THEN
        LET sell_value == Mul(st.shares, close_price)
            fee == Mul(sell_value, fee_rate)
        IN  [position |-> 0, entry_price |-> st.entry_price,
             capital |-> Add(sell_value, fee), shares |-> Zero]
    ELSE st

\* one iteration of the first loop (position / cash ledger)
LedgerIter(st, sig, close_price, fee_rate) ==
    IF st.position = 0 /\ sig = 1 THEN
        LET fee == Mul(st.capital, fee_rate)
            capital_after_fee == Sub(st.capital, fee)
        IN  [position |-> 1, entry_price |-> close_price, capital |-> st.capital,
             shares |-> Div(capital_after_fee, close_price)]
    ELSE IF st.position = 1 /\ sig = -1 THEN
        LET sell_value == Mul(st.shares, close_price)
            fee == Mul(sell_value, fee_rate)
        IN  [position |-> 0, entry_price |-> st.entry_price,
             capital |-> Sub(sell_value, fee), shares |-> Zero]
    ELSE st

\* mutant of Liquidate: the forced sale charges no fee
LiquidateNoFee(st, last_close, fee_rate) ==
    IF st.position = 1 THEN
        [position |-> 0, entry_price |-> st.entry_price,
         capital |-> Mul(st.shares, last_close), shares |-> Zero]
    ELSE st

\* forced sale on the last bar when the first loop ends in position
Liquidate(st, last_close, fee_rate) ==
    IF st.position = 1 THEN
        LET sell_value == Mul(st.shares, last_close)
            fee == Mul(sell_value, fee_rate)
        IN  [position |-> 0, entry_price |-> st.entry_price,
             capital |-> Sub(sell_value, fee), shares |-> Zero]
    ELSE st

\* mutant of ValuationIter: shares are bought with the cash before the fee
ValuationIterPreFeeShares(st, sig, c_price, fee_rate) ==
    IF st.pos = 0 /\ sig = 1 THEN
        LET fee == Mul(st.cap_temp, fee_rate)
            cap == Sub(st.cap_temp, fee)
        IN  [pos |-> 1, entry_p |-> c_price, cap_temp |-> cap,
             sh |-> Div(st.cap_temp, c_price)]
    ELSE IF st.pos = 1 /\ sig = -1 THEN
        LET sell_value == Mul(st.sh, c_price)
            fee == Mul(sell_value, fee_rate)
        IN  [pos |-> 0, entry_p |-> st.entry_p, cap_temp |-> Sub(sell_value, fee), sh |-> Zero]
    ELSE st

\* one iteration (i >= 1) of the second loop (valuation)
ValuationIter(st, sig, c_price, fee_rate) ==
    IF st.pos = 0 /\ sig = 1 THEN
        LET fee == Mul(st.cap_temp, fee_rate)
            cap == Sub(st.cap_temp, fee)
        IN  [pos |-> 1, entry_p |-> c_price, cap_temp |-> cap, sh |-> Div(cap, c_price)]
    ELSE IF st.pos = 1 /\ sig = -1 THEN
        LET sell_value == Mul(st.sh, c_price)
            fee == Mul(sell_value, fee_rate)
        IN  [pos |-> 0, entry_p |-> st.entry_p, cap_temp |-> Sub(sell_value, fee), sh |-> Zero]
    ELSE st

PortfolioPoint(st, c_price) == IF st.pos = 1 THEN Mul(st.sh, c_price) ELSE st.cap_temp

Roi(cap, ic) == Mul(Div(Sub(cap, ic), ic), Num(100))

LedgerState == [position |-> position, entry_price |-> entry_price,
                capital |-> capital, shares |-> shares]

ValuationState == [pos |-> pos, entry_p |-> entry_p, cap_temp |-> cap_temp, sh |-> sh]

\* the call backtest_ema(df, initial_capital, fee_percent):
\* df.copy(); df["position"] = 0; locals of the first loop
BtStart ==
    /\ pc \in {"start", "ready"}
    /\ initial_capital' \in InitialCapitals
    /\ fee_percent' \in FeeRates
    /\ i' = 1
    /\ position' = 0
    /\ entry_price' = Zero
    /\ capital' = initial_capital'
    /\ shares' = Zero
    /\ position_col' = [k \in 1..N |-> 0]
    /\ pc' = "ledger"
    /\ UNCHANGED <<df, valuation, result, app>>

\* for i in range(1, len(df)).  position_col is the Series that the chained
\* assignment df["position"].iloc[i] = position writes to; whether that
\* Series is df's own column is decided by pandas (see BtReturn)
BtLedgerStep ==
    /\ pc = "ledger"
    /\ i < N
    /\ LET st == LedgerIter(LedgerState, signal[i + 1], close[i + 1], fee_percent)
       IN  /\ position' = st.position
           /\ entry_price' = st.entry_price
           /\ capital' = st.capital
           /\ shares' = st.shares
           /\ position_col' = [position_col EXCEPT ![i + 1] = st.position]
    /\ i' = i + 1
    /\ UNCHANGED <<df, params, pc, valuation, result, app>>

\* end of the first loop: forced sale, then the locals of the second loop
BtLiquidate ==
    /\ pc = "ledger"
    /\ i >= N
    /\ LET st == Liquidate(LedgerState, IF N > 0 THEN close[N] ELSE Zero, fee_percent)
       IN  /\ position' = st.position
           /\ entry_price' = st.entry_price
           /\ capital' = st.capital
           /\ shares' = st.shares
    /\ portfolio_values' = <<>>
    /\ cap_temp' = initial_capital
    /\ pos' = 0
    /\ sh' = Zero
    /\ entry_p' = Zero
    /\ i' = 0
    /\ pc' = "valuation"
    /\ UNCHANGED <<df, params, position_col, result, app>>

\* mutant of BtValuationStep: index 0 is handled like every other bar
BtValuationStepNoSkip ==
    /\ pc = "valuation"
    /\ i < N
    /\ LET st == ValuationIter(ValuationState, signal[i + 1], close[i + 1], fee_percent)
       IN  /\ pos' = st.pos
           /\ entry_p' = st.entry_p
           /\ cap_temp' = st.cap_temp
           /\ sh' = st.sh
           /\ portfolio_values' = Append(portfolio_values, PortfolioPoint(st, close[i + 1]))
    /\ i' = i + 1
    /\ UNCHANGED <<df, params, pc, position, entry_price, capital, shares,
                   position_col, result, app>>

\* for i in range(len(df)): index 0 records cap_temp and continues
BtValuationStep ==
    /\ pc = "valuation"
    /\ i < N
    /\ IF i = 0
       THEN /\ portfolio_values' = Append(portfolio_values, cap_temp)
            /\ UNCHANGED <<cap_temp, pos, sh, entry_p>>
       ELSE LET st == ValuationIter(ValuationState, signal[i + 1], close[i + 1], fee_percent)
            IN  /\ pos' = st.pos
                /\ entry_p' = st.entry_p
                /\ cap_temp' = st.cap_temp
                /\ sh' = st.sh
                /\ portfolio_values' = Append(portfolio_values, PortfolioPoint(st, close[i + 1]))
    /\ i' = i + 1
    /\ UNCHANGED <<df, params, pc, position, entry_price, capital, shares,
                   position_col, result, app>>

\* df["portfolio_value"] = portfolio_values; roi; return df, roi.
\* The returned frame's position column holds the chained writes when pandas
\* writes through (classic mode) and stays all 0 under copy-on-write.
BtReturn ==
    /\ pc = "valuation"
    /\ i >= N
    /\ roi' = Roi(capital, initial_capital)
    /\ \E copy_on_write \in BOOLEAN :
          ret_position' = IF copy_on_write THEN [k \in 1..N |-> 0] ELSE position_col
    /\ pc' = "bt_done"
    /\ UNCHANGED <<df, params, ledger, valuation, app>>

\* ---------------------------------------------------- app.py backtest_ema
AppIter(st, sig, price) ==
    IF sig = 1 /\ Eq(st.position, Zero) THEN
        [position |-> Div(st.balance, price), balance |-> Zero]
    ELSE IF sig = -1 /\ Gt(st.position, Zero) THEN
        [position |-> Zero, balance |-> Mul(st.position, price)]
    ELSE st

AppValue(st, price) ==
    Add(st.balance, IF Gt(st.position, Zero) THEN Mul(st.position, price) ELSE Zero)

AppState == [position |-> app_position, balance |-> balance]

\* app.py calls backtest_ema only on a non-empty frame that
\* calculate_ema_strategy has just filled (app.py 133-140); short_window > 0
\* records that it has
AppStart ==
    /\ pc = "bt_done"
    /\ short_window > 0
    /\ N > 0
    /\ idx' = 0
    /\ app_position' = Zero
    /\ balance' = initial_capital
    /\ portfolio' = <<>>
    /\ pc' = "app_loop"
    /\ UNCHANGED <<df, params, ledger, valuation, result, app_roi>>

\* for idx, row in df.iterrows()
AppStep ==
    /\ pc = "app_loop"
    /\ idx < N
    /\ LET st == AppIter(AppState, signal[idx + 1], close[idx + 1])
       IN  /\ app_position' = st.position
           /\ balance' = st.balance
           /\ portfolio' = Append(portfolio, AppValue(st, close[idx + 1]))
    /\ idx' = idx + 1
    /\ UNCHANGED <<df, params, pc, ledger, valuation, result, app_roi>>

AppReturn ==
    /\ pc = "app_loop"
    /\ idx >= N
    /\ app_roi' = Roi(portfolio[Len(portfolio)], initial_capital)
    /\ pc' = "app_done"
    /\ UNCHANGED <<df, params, ledger, valuation, result, idx, app_position, balance, portfolio>>

\* ----------------------------------------------------------- specification
\* everything but the frame: no call has been made yet
InitLocals ==
    /\ ema_short = <<>>
    /\ ema_long = <<>>
    /\ short_window = 0
    /\ long_window = 0
    /\ initial_capital = Zero
    /\ fee_percent = Zero
    /\ i = 0
    /\ position = 0
    /\ entry_price = Zero
    /\ capital = Zero
    /\ shares = Zero
    /\ position_col = <<>>
    /\ cap_temp = Zero
    /\ pos = 0
    /\ sh = Zero
    /\ entry_p = Zero
    /\ portfolio_values = <<>>
    /\ roi = Zero
    /\ ret_position = <<>>
    /\ idx = 0
    /\ app_position = Zero
    /\ balance = Zero
    /\ portfolio = <<>>
    /\ app_roi = Zero

\* a caller's frame of up to MaxBars bars that already carries a signal column
Init ==
    /\ \E n \in 0..MaxBars :
          /\ close \in [1..n -> Prices]
          /\ signal \in [1..n -> Signals]
    /\ pc = "start"
    /\ InitLocals

\* a raw candle frame of up to MaxLen bars, as get_market_data returns it
InitRaw ==
    /\ \E n \in 0..MaxLen : close \in [1..n -> Prices]
    /\ signal = <<>>
    /\ pc = "raw"
    /\ InitLocals

Next ==
    \/ CalculateEmaStrategy
    \/ BtStart
    \/ BtLedgerStep
    \/ BtLiquidate
    \/ BtValuationStep
    \/ BtReturn
    \/ AppStart
    \/ AppStep
    \/ AppReturn

Spec == Init /\ [][Next]_vars

SpecPipeline == InitRaw /\ [][Next]_vars

\* ------------------------------------------------------- shared vocabulary
ValidFee(f) == Leq(Zero, f) /\ Lt(f, Num(1))

PositiveCloses == \A k \in 1..N : Gt(close[k], Zero)

\* backtest.py's backtest_ema has been entered
BtEntered == pc \in {"ledger", "valuation", "bt_done", "app_loop", "app_done"}

\* the ledger of the first loop after bars 1..j, recomputed from the frame
RECURSIVE LedgerRun(_, _)
LedgerRun(j, fee_rate) ==
    IF j <= 0
    THEN [position |-> 0, entry_price |-> Zero, capital |-> initial_capital, shares |-> Zero]
    ELSE LedgerIter(LedgerRun(j - 1, fee_rate), signal[j + 1], close[j + 1], fee_rate)

\* the ROI the first loop and the forced sale give for fee rate fee_rate
RunRoi(fee_rate) ==
    Roi(Liquidate(LedgerRun(N - 1, fee_rate), IF N > 0 THEN close[N] ELSE Zero,
                  fee_rate).capital,
        initial_capital)

FeeGrid == {Zero, <<1, 10>>, <<1, 2>>, <<9, 10>>}

\* ---------------------------------------------------------------------- C1
\* one step of the first loop of backtest.py, or of the loop of app.py (where
\* Long means position > 0), obeys the transition rule
C1_Step ==
    /\ (pc = "ledger" /\ pc' = "ledger") =>
          LET sig == signal[i + 1]
          IN  /\ position' \in {0, 1}
              /\ position' # position =>
                    \/ position = 0 /\ position' = 1 /\ sig = 1
                    \/ position = 1 /\ position' = 0 /\ sig = -1
              /\ (sig = 0 \/ (sig = 1 /\ position = 1) \/ (sig = -1 /\ position = 0)) =>
                    UNCHANGED <<position, shares, capital>>
    /\ (pc = "app_loop" /\ pc' = "app_loop") =>
          LET sig == signal[idx + 1]
              flat == Eq(app_position, Zero)
              long == Gt(app_position, Zero)
          IN  /\ app_position' # app_position =>
                    \/ flat /\ sig = 1
                    \/ long /\ sig = -1 /\ app_position' = Zero
              /\ (sig = 0 \/ (sig = 1 /\ long) \/ (sig = -1 /\ flat)) =>
                    UNCHANGED <<app_position, balance>>

\* C1: between consecutive bars the position changes only Flat->Long on a
\* Buy while Flat or Long->Flat on a Sell while Long; a Neutral signal, a Buy
\* while Long and a Sell while Flat leave position, shares and cash unchanged,
\* so at most one position is open at a time.
C1_PositionTransitions == [][C1_Step]_vars

\* both loops have entered and left a position
C1_Witness ==
    /\ pc = "app_loop"
    /\ \E k \in 1..(N - 1) : position_col[k] = 1 /\ position_col[k + 1] = 0
    /\ idx >= 2
    /\ Eq(app_position, Zero)
    /\ balance # initial_capital

\* ---------------------------------------------------------------------- C2
\* C2: when the run is still Long at the last bar, the forced sale only
\* moves the ROI: the curve has one point per bar, its last point is
\* shares * close[last] with no fee, and the ROI is that value less the fee.
C2_LiquidationOnlyInRoi ==
    (pc = "bt_done" /\ pos = 1) =>
        /\ Len(portfolio_values) = N
        /\ portfolio_values[N] = Mul(sh, close[N])
        /\ roi = Roi(Sub(portfolio_values[N], Mul(portfolio_values[N], fee_percent)),
                     initial_capital)

C2_Witness ==
    /\ pc = "bt_done"
    /\ pos = 1
    /\ fee_percent = <<1, 10>>
    /\ IsFinite(roi)
    /\ roi # Roi(portfolio_values[N], initial_capital)

BuyFiredAtZeroClose ==
    \E k \in 1..(N - 1) :
        /\ close[k + 1] = Zero
        /\ signal[k + 1] = 1
        /\ LedgerRun(k - 1, fee_percent).position = 0

\* C4 (as claimed): a run in which a Buy transition fired on a bar whose
\* close is 0 does not complete with a curve and an ROI.
C4_ZeroCloseRejected == pc = "bt_done" => ~BuyFiredAtZeroClose

\* ---------------------------------------------------------------------- C5
\* C5 (as claimed): with a fee rate outside [0,1) no bar is processed, no
\* portfolio value is recorded and no ROI is returned.
C5_InvalidFeeRejected ==
    (BtEntered /\ ~ValidFee(fee_percent)) =>
        /\ pc = "ledger"
        /\ i = 1
        /\ portfolio_values = <<>>

\* ---------------------------------------------------------------------- C6
LedgerExclusive ==
    /\ \/ position = 1 /\ Gt(shares, Zero)
       \/ position = 0 /\ shares = Zero /\ Leq(Zero, capital)
    /\ ~Lt(shares, Zero)
    /\ ~Lt(capital, Zero)

AppExclusive ==
    /\ \/ Gt(app_position, Zero) /\ balance = Zero
       \/ app_position = Zero /\ Leq(Zero, balance)
    /\ ~Lt(app_position, Zero)
    /\ ~Lt(balance, Zero)

\* C6 (as claimed): with initial capital > 0, a fee rate in [0,1) and
\* non-negative closes, at every bar either Long with shares > 0 or Flat
\* with shares = 0 and the balance in cash; never Long with shares = 0.
\* Runs in which a division by zero has already happened (C4) are left out.
C6_ExclusiveNonNegativeCloses ==
    (BtEntered /\ ValidFee(fee_percent) /\ Gt(initial_capital, Zero)
       /\ IsFinite(shares) /\ IsFinite(capital)) => LedgerExclusive

\* C6 (amended): the same, in both simulators, when every close is strictly
\* positive (a sale at close 0 leaves no cash, and the next Buy then opens a
\* position of 0 shares).
C6_ExclusivePositiveCloses ==
    (BtEntered /\ ValidFee(fee_percent) /\ Gt(initial_capital, Zero) /\ PositiveCloses) =>
        /\ LedgerExclusive
        /\ pc \in {"app_loop", "app_done"} => AppExclusive

\* both simulators are Long again after a full round trip
C6_Witness ==
    /\ pc = "app_loop"
    /\ idx = N
    /\ N = 4
    /\ PositiveCloses
    /\ fee_percent = <<1, 10>>
    /\ Gt(app_position, Zero)
    /\ ret_position = <<0, 1, 0, 1>>

\* ---------------------------------------------------------------------- C7
\* C7: for positive closes, fixed signals and capital, the ROI does not
\* increase when the fee rate increases within [0,1).
C7_FeeMonotone ==
    (pc = "bt_done" /\ PositiveCloses /\ ValidFee(fee_percent)) =>
        \A f \in FeeGrid :
            /\ Leq(fee_percent, f) => Leq(RunRoi(f), roi)
            /\ Leq(f, fee_percent) => Leq(roi, RunRoi(f))

\* a run with trades whose ROI strictly drops from fee 0 to 1/10 to 1/2
C7_Witness ==
    /\ pc = "bt_done"
    /\ PositiveCloses
    /\ fee_percent = <<1, 10>>
    /\ Lt(roi, RunRoi(Zero))
    /\ Lt(RunRoi(<<1, 2>>), roi)

\* ---------------------------------------------------------------------- C8
\* C8: signal[i] is Buy iff ema_short[i] > ema_long[i], Sell iff
\* ema_short[i] < ema_long[i], Neutral iff they are equal; both EMAs start at
\* close[0], so a one-bar series has ema_short = ema_long = close[0] and a
\* Neutral signal.
C8_SignalRule ==
    short_window > 0 =>
        /\ Len(signal) = N /\ Len(ema_short) = N /\ Len(ema_long) = N
        /\ \A k \in 1..N :
              /\ signal[k] = 1 <=> Gt(ema_short[k], ema_long[k])
              /\ signal[k] = -1 <=> Lt(ema_short[k], ema_long[k])
              /\ signal[k] = 0 <=> ema_short[k] = ema_long[k]
        /\ N >= 1 => (ema_short[1] = close[1] /\ ema_long[1] = close[1] /\ signal[1] = 0)

\* a frame on which the engine has produced all three signals
C8_Witness ==
    /\ pc = "ready"
    /\ short_window # long_window
    /\ \E a, b \in 1..N : signal[a] = 1 /\ signal[b] = -1
    /\ signal[1] = 0

\* ---------------------------------------------------------------------- C9
\* C9: the two loops of backtest.py stay in lock-step: after bar i the second
\* loop's pos and sh equal the first loop's position and shares, when Flat
\* cap_temp equals capital, and a run that ends Flat returns
\* ROI = (portfolio_value[last] - initial_capital) / initial_capital * 100.
C9_LockStep ==
    /\ (pc = "valuation" /\ i >= 1) =>
          LET led == LedgerRun(i - 1, fee_percent)
          IN  /\ pos = led.position
              /\ sh = led.shares
              /\ pos = 0 => cap_temp = led.capital
    /\ (pc = "bt_done" /\ N >= 1 /\ pos = 0) =>
          roi = Roi(portfolio_values[N], initial_capital)

\* the second loop has bought and sold again, with a fee
C9_Witness ==
    /\ pc = "valuation"
    /\ i = N
    /\ pos = 0
    /\ fee_percent = <<1, 10>>
    /\ IsFinite(cap_temp)
    /\ cap_temp # initial_capital

\* --------------------------------------------------------------------- C10
\* C10: on a non-empty series of positive closes with signals from
\* calculate_ema_strategy, app.py's backtest and backtest.py's with
\* fee_percent = 0 are in position on the same bars and give the same
\* portfolio_value at every index and the same ROI.
C10_AppEquivalent ==
    (fee_percent = Zero /\ PositiveCloses) =>
        /\ (pc = "app_loop" /\ idx >= 1) =>
              /\ Gt(app_position, Zero) <=> position_col[idx] = 1
              /\ portfolio[idx] = portfolio_values[idx]
        /\ pc = "app_done" => (portfolio = portfolio_values /\ app_roi = roi)

\* both backtests have returned a non-zero ROI
C10_Witness ==
    /\ pc = "app_done"
    /\ fee_percent = Zero
    /\ PositiveCloses
    /\ app_roi # Zero
    /\ \E k \in 1..(N - 1) : position_col[k] = 1 /\ position_col[k + 1] = 0

====
